---- MODULE Spec2Model ----
(***************************************************************************)
(* A model of spreadsheet-unprotect: SpreadsheetReader.parseWbSheets,      *)
(* SpreadsheetWriter.loadUnprotect / _getUnprotectedXml / writeClose /     *)
(* __exit__ (src/src/spreadsheet.py) and the way Application.unprotectWrite*)
(* drives the writer (src/supgui.py).                                      *)
(*                                                                         *)
(* Text is a sequence of lexical tokens.  The tokens are cut so that the   *)
(* character '>' only ever occurs as the token GT and the literal          *)
(* "<sheetProtection" / "<workbookProtection" only ever occurs as an       *)
(* unprefixed "open" token of that name, which is all the regular          *)
(* expressions and the substring scan of the source look at.               *)
(***************************************************************************)
EXTENDS Integers, Sequences, FiniteSets, TLC

----------------------------------------------------------------------------
(* Bounds of the model. *)

\* longest text handed to _getUnprotectedXml in SpecXml
MaxLen == 5
\* most <sheet> elements declared in xl/workbook.xml in SpecRead
MaxSheetElems == 2
\* most workbookProtection elements under the workbook root in SpecRead
MaxWbProtElems == 2

----------------------------------------------------------------------------
(* Tokens. *)

\* A value (an attribute value, a character) and an archive path are kept as the
\* sequence of their '/'-separated segments: "/xl/a.xml" is <<"", "xl", "a.xml">>.
Tok(k, p, n, v) == [k |-> k, p |-> p, n |-> n, v |-> v]
\* "<p:n"  (p = "" for an unprefixed name)
Open(p, n) == Tok("open", p, n, <<>>)
\* "</p:n"
Close(p, n) == Tok("close", p, n, <<>>)
\* " p:n=\"v\""
Attr(p, n, v) == Tok("attr", p, n, v)
GT == Tok("gt", "", "", <<">">>)
Slash == Tok("slash", "", "", <<"/">>)
\* a non-ASCII character of a str
Chr(c) == Tok("char", "", "", <<c>>)
\* a byte >= 0x80 of a bytes object
Byte(b) == Tok("byte", "", "", <<b>>)

EAcute == Chr("U+00E9")

\* the sequences over S of length at most n
SeqsUpTo(S, n) == UNION {[1..m -> S] : m \in 0..n}

RECURSIVE Concat(_)
Concat(ss) == IF ss = <<>> THEN <<>> ELSE Head(ss) \o Concat(Tail(ss))

----------------------------------------------------------------------------
(* bytes.decode("utf-8") and the str -> bytes encoding of ZipFile.writestr: *)
(* ASCII is unchanged, U+00E9 is the two bytes C3 A9, any other byte >=    *)
(* 0x80 is a UnicodeDecodeError.                                           *)

RECURSIVE decode(_)
decode(b) ==
  IF b = <<>> THEN [ok |-> TRUE, s |-> <<>>]
  ELSE IF Head(b).k = "byte"
       THEN IF Head(b) = Byte("C3") /\ Len(b) >= 2 /\ b[2] = Byte("A9")
            THEN LET r == decode(SubSeq(b, 3, Len(b)))
                 IN  [ok |-> r.ok, s |-> IF r.ok THEN <<EAcute>> \o r.s ELSE <<>>]
            ELSE [ok |-> FALSE, s |-> <<>>]
       ELSE LET r == decode(Tail(b))
            IN  [ok |-> r.ok, s |-> IF r.ok THEN <<Head(b)>> \o r.s ELSE <<>>]

RECURSIVE encode(_)
encode(s) ==
  IF s = <<>> THEN <<>>
  ELSE IF Head(s) = EAcute
       THEN <<Byte("C3"), Byte("A9")>> \o encode(Tail(s))
       ELSE <<Head(s)>> \o encode(Tail(s))

----------------------------------------------------------------------------
(* SpreadsheetWriter._getUnprotectedXml *)

\* the literal the pattern starts with: "<sheetProtection" / "<workbookProtection"
unprotRe(type) ==
  IF type = "sheet" THEN Open("", "sheetProtection")
  ELSE Open("", "workbookProtection")

\* index of the first '>' of xml at or after position i, 0 when there is none
firstGT(xml, i) ==
  LET G == {g \in i..Len(xml) : xml[g] = GT}
  IN  IF G = {} THEN 0 ELSE CHOOSE g \in G : \A h \in G : g <= h

\* re.sub(pattern, "", xml, count): pattern = literal [\s\S]*? '>';
\* count = 0 replaces every non-overlapping match, leftmost first
RECURSIVE reSub(_, _, _)
reSub(lit, xml, count) ==
  IF xml = <<>> THEN <<>>
  ELSE IF Head(xml) = lit /\ firstGT(xml, 1) # 0
       THEN LET rest == SubSeq(xml, firstGT(xml, 1) + 1, Len(xml))
            IN  IF count = 1 THEN rest
                ELSE reSub(lit, rest, IF count = 0 THEN 0 ELSE count - 1)
       ELSE <<Head(xml)>> \o reSub(lit, Tail(xml), count)

getUnprotectedXmlFirstOnly(type, xml) == reSub(unprotRe(type), xml, 1)

getUnprotectedXml(type, xml) == reSub(unprotRe(type), xml, 0)

----------------------------------------------------------------------------
(* xml.etree.ElementTree.fromstring, on the token grammar                 *)
(*   element ::= open attr* ( '/' '>'  |  '>' content close '>' )         *)
(*   content ::= ( element | character data )*                            *)
(* A node is [p, n, attrs, children].                                     *)

Node(p, n, attrs, children) ==
  [p |-> p, n |-> n, attrs |-> attrs, children |-> children]

ParseFail == [ok |-> FALSE, nodes |-> <<>>, rest |-> <<>>]

\* number of consecutive attribute tokens of t from position i on
RECURSIVE attrRun(_, _)
attrRun(t, i) ==
  IF i <= Len(t) /\ t[i].k = "attr" THEN 1 + attrRun(t, i + 1) ELSE 0

RECURSIVE parseElement(_), parseContent(_)
\* one element at the head of t (Head(t) is an open token); rest is what follows it
parseElement(t) ==
  LET na    == attrRun(t, 2)
      attrs == SubSeq(t, 2, 1 + na)
      after == SubSeq(t, 2 + na, Len(t))
  IN  IF Len(after) >= 2 /\ after[1] = Slash /\ after[2] = GT
      THEN [ok |-> TRUE,
            nodes |-> <<Node(Head(t).p, Head(t).n, attrs, <<>>)>>,
            rest |-> SubSeq(after, 3, Len(after))]
      ELSE IF Len(after) >= 1 /\ after[1] = GT
      THEN LET inner == parseContent(Tail(after))
           IN  IF inner.ok /\ Len(inner.rest) >= 2
                  /\ inner.rest[1] = Close(Head(t).p, Head(t).n)
                  /\ inner.rest[2] = GT
               THEN [ok |-> TRUE,
                     nodes |-> <<Node(Head(t).p, Head(t).n, attrs, inner.nodes)>>,
                     rest |-> SubSeq(inner.rest, 3, Len(inner.rest))]
               ELSE ParseFail
      ELSE ParseFail

\* the child elements up to the next unmatched close token; character data is skipped
parseContent(t) ==
  IF t = <<>> THEN [ok |-> TRUE, nodes |-> <<>>, rest |-> <<>>]
  ELSE IF Head(t).k = "close" THEN [ok |-> TRUE, nodes |-> <<>>, rest |-> t]
  ELSE IF Head(t).k = "open"
       THEN LET e == parseElement(t)
            IN  IF ~e.ok THEN ParseFail
                ELSE LET c == parseContent(e.rest)
                     IN  IF c.ok
                         THEN [ok |-> TRUE, nodes |-> e.nodes \o c.nodes, rest |-> c.rest]
                         ELSE ParseFail
       ELSE parseContent(Tail(t))

NoNode == Node("", "", <<>>, <<>>)

\* ET.fromstring: exactly one root element and nothing around it, else ParseError
fromstring(text) ==
  IF text = <<>> \/ Head(text).k # "open" THEN [ok |-> FALSE, root |-> NoNode]
  ELSE LET e == parseElement(text)
       IN  IF e.ok /\ e.rest = <<>>
           THEN [ok |-> TRUE, root |-> e.nodes[1]]
           ELSE [ok |-> FALSE, root |-> NoNode]

----------------------------------------------------------------------------
(* Archives.  A zip archive is the sequence of its members in archive      *)
(* order; a member is [filename, data], data being bytes.                  *)

Member(filename, data) == [filename |-> filename, data |-> data]

\* ZipFile.namelist
namelist(zip) == {zip[i].filename : i \in 1..Len(zip)}

\* SpreadsheetReader.getFile(name) = ZipFile.read(name): KeyError when no member
\* has the name, else the data of the last member of that name
getFile(zip, name) ==
  LET I == {i \in 1..Len(zip) : zip[i].filename = name}
  IN  IF I = {} THEN [ok |-> FALSE, data |-> <<>>]
      ELSE [ok |-> TRUE, data |-> zip[CHOOSE i \in I : \A j \in I : j <= i].data]

\* SpreadsheetReader.hasVba
hasVba(zip) == <<"xl", "vbaProject.bin">> \in namelist(zip)

----------------------------------------------------------------------------
(* Namespaces.  The root element of every document of the model declares   *)
(*   xmlns = xmlns:x = the spreadsheetml main namespace,                   *)
(*   xmlns:r = the officeDocument relationships namespace,                 *)
(*   xmlns:o = some other namespace.                                       *)

nsOfElement(p) ==
  IF p = "" \/ p = "x" THEN "main" ELSE IF p = "r" THEN "rel" ELSE "other"

\* an unprefixed attribute is in no namespace: its ElementTree key has no "{"
nsOfAttr(p) ==
  IF p = "" THEN "" ELSE IF p = "x" THEN "main" ELSE IF p = "r" THEN "rel" ELSE "other"

\* Element.find(ns + local): index of the first child with that tag, 0 for None
find(node, ns, local) ==
  LET I == {i \in 1..Len(node.children) :
              nsOfElement(node.children[i].p) = ns /\ node.children[i].n = local}
  IN  IF I = {} THEN 0 ELSE CHOOSE i \in I : \A j \in I : i <= j

\* key in Element.attrib, and Element.attrib[key]
hasAttrib(node, ns, local) ==
  \E i \in 1..Len(node.attrs) :
     nsOfAttr(node.attrs[i].p) = ns /\ node.attrs[i].n = local

attrib(node, ns, local) ==
  LET i == CHOOSE i \in 1..Len(node.attrs) :
             nsOfAttr(node.attrs[i].p) = ns /\ node.attrs[i].n = local
  IN  node.attrs[i].v

----------------------------------------------------------------------------
(* dict: the sequence of its [key, val] items in insertion order. *)

dictHas(d, key) == \E i \in 1..Len(d) : d[i].key = key

dictGet(d, key) == d[CHOOSE i \in 1..Len(d) : d[i].key = key].val

\* d[key] = val: a key already present keeps its place and takes the new value
dictSet(d, key, val) ==
  IF dictHas(d, key)
  THEN [i \in 1..Len(d) |-> IF d[i].key = key THEN [key |-> key, val |-> val] ELSE d[i]]
  ELSE Append(d, [key |-> key, val |-> val])

\* dict(list of (key, val) pairs)
RECURSIVE dict(_)
dict(pairs) ==
  IF pairs = <<>> THEN <<>>
  ELSE LET n == Len(pairs)
       IN  dictSet(dict(SubSeq(pairs, 1, n - 1)), pairs[n].key, pairs[n].val)

----------------------------------------------------------------------------
(* SpreadsheetReader.parseWbSheets *)

\* the local function getPath of parseWbSheets: p[1:] if p[:4] == "/xl/" else "xl/" + p
\* (p starts with "/xl/" when its segments start with "", "xl" and go on)
getPath(p) ==
  IF Len(p) >= 3 /\ p[1] = "" /\ p[2] = "xl" THEN Tail(p) ELSE <<"xl">> \o p

\* what a call ends with: an exception, or the three attributes it assigns
Raise(exc, msg) ==
  [exc |-> exc, msg |-> msg, protectedSheets |-> <<>>, unprotectedSheets |-> <<>>,
   wbProt |-> FALSE]

Assigned(protectedSheets, unprotectedSheets, wbProt) ==
  [exc |-> "none", msg |-> "", protectedSheets |-> protectedSheets,
   unprotectedSheets |-> unprotectedSheets, wbProt |-> wbProt]

WorkbookXml == <<"xl", "workbook.xml">>
WorkbookRels == <<"xl", "_rels", "workbook.xml.rels">>
VbaProject == <<"xl", "vbaProject.bin">>

SheetsTuple(path, name) == [path |-> path, name |-> name]

\* "<sheetProtection" in text
containsSheetProtection(text) ==
  \E i \in 1..Len(text) : text[i] = Open("", "sheetProtection")

\* the item with a member missing from the archive read as an empty, unprotected part
sheetItemMissingAsEmpty(zip, sheetRels, sheetPaths, rid) ==
  IF ~dictHas(sheetPaths, rid)
  THEN [err |-> "KeyError", path |-> <<>>, name |-> <<>>, protected |-> FALSE]
  ELSE LET path == getPath(dictGet(sheetPaths, rid))
           d    == decode(getFile(zip, path).data)
       IN  IF ~d.ok
           THEN [err |-> "UnicodeDecodeError", path |-> <<>>, name |-> <<>>,
                 protected |-> FALSE]
           ELSE [err |-> "none", path |-> path, name |-> dictGet(sheetRels, rid),
                 protected |-> containsSheetProtection(d.s)]

\* one item of the list comprehension of lines 75-82, for relationship id rid:
\* what evaluating it raises, else the AllSheetsTuple
sheetItem(zip, sheetRels, sheetPaths, rid) ==
  LET none == [err |-> "KeyError", path |-> <<>>, name |-> <<>>, protected |-> FALSE]
  IN  IF ~dictHas(sheetPaths, rid) THEN none
      ELSE LET path == getPath(dictGet(sheetPaths, rid))
               f    == getFile(zip, path)
               d    == decode(f.data)
           IN  IF ~f.ok THEN none
               ELSE IF ~d.ok THEN [none EXCEPT !.err = "UnicodeDecodeError"]
               ELSE [err |-> "none", path |-> path, name |-> dictGet(sheetRels, rid),
                     protected |-> containsSheetProtection(d.s)]

\* lines 93-97 with the attribute test left out
wbProtOfAnyElement(workbookRoot, xmlnsWb) ==
  find(workbookRoot, xmlnsWb, "workbookProtection") # 0

\* lines 93-97: the first workbookProtection child decides
wbProtOf(workbookRoot, xmlnsWb) ==
  LET wbProtTag == find(workbookRoot, xmlnsWb, "workbookProtection")
  IN  IF wbProtTag # 0
      THEN Len(workbookRoot.children[wbProtTag].attrs) > 0
      ELSE FALSE

\* lines 56-97, once sheetRels is built
parseRelsAndSheets(zip, workbookRoot, xmlnsWb, sheetRels) ==
  LET relsFile == getFile(zip, WorkbookRels)
      relsText == decode(relsFile.data)
      relsDoc  == fromstring(relsText.s)
      relsRoot == relsDoc.root
      rels     == relsRoot.children
      sheetPaths ==
        dict([i \in 1..Len(rels) |->
                [key |-> attrib(rels[i], "", "Id"), val |-> attrib(rels[i], "", "Target")]])
      items == [i \in 1..Len(sheetRels) |->
                  sheetItem(zip, sheetRels, sheetPaths, sheetRels[i].key)]
      bad   == {i \in 1..Len(items) : items[i].err # "none"}
      first == CHOOSE i \in bad : \A j \in bad : i <= j
  IN  IF ~relsFile.ok
      THEN Raise("BadSpreadsheetError", "workbook.xml.rels not found or corrupt")
      ELSE IF ~relsText.ok THEN Raise("UnicodeDecodeError", "")
      ELSE IF ~relsDoc.ok THEN Raise("ParseError", "")
      ELSE IF \E i \in 1..Len(rels) :
                 ~hasAttrib(rels[i], "", "Id") \/ ~hasAttrib(rels[i], "", "Target")
      THEN Raise("BadSpreadsheetError", "Failed to parse workbook.xml.rels")
      ELSE IF bad # {}
      THEN IF items[first].err = "KeyError"
           THEN Raise("BadSpreadsheetError", "Sheet expected but not found")
           ELSE Raise(items[first].err, "")
      ELSE LET prot(t) == t.protected
               unprot(t) == ~t.protected
               P == SelectSeq(items, prot)
               U == SelectSeq(items, unprot)
           IN  Assigned([i \in 1..Len(P) |-> SheetsTuple(P[i].path, P[i].name)],
                        [i \in 1..Len(U) |-> SheetsTuple(U[i].path, U[i].name)],
                        wbProtOf(workbookRoot, xmlnsWb))

\* lines 46-54: the namespaces, the sheets element and sheetRels
parseWbSheets(zip) ==
  LET wbFile == getFile(zip, WorkbookXml)
      wbText == decode(wbFile.data)
      wbDoc  == fromstring(wbText.s)
      workbookRoot == wbDoc.root
      xmlnsWb   == nsOfElement(workbookRoot.p)
      sheetsTag == find(workbookRoot, xmlnsWb, "sheets")
      sheetEls  == workbookRoot.children[sheetsTag].children
      namespaced(a) == a.p # ""
      nsKeys    == SelectSeq(sheetEls[1].attrs, namespaced)
      xmlnsWbRel == nsOfAttr(nsKeys[1].p)
      sheetRels ==
        dict([i \in 1..Len(sheetEls) |->
                [key |-> attrib(sheetEls[i], xmlnsWbRel, "id"),
                 val |-> attrib(sheetEls[i], "", "name")]])
  IN  IF ~wbFile.ok
      THEN Raise("BadSpreadsheetError", "workbook.xml not found or corrupt")
      ELSE IF ~wbText.ok THEN Raise("UnicodeDecodeError", "")
      ELSE IF ~wbDoc.ok THEN Raise("ParseError", "")
      ELSE IF sheetsTag = 0 THEN Raise("TypeError", "")
      ELSE IF Len(sheetEls) = 0 THEN Raise("IndexError", "")
      ELSE IF Len(nsKeys) = 0 THEN Raise("IndexError", "")
      ELSE IF \E i \in 1..Len(sheetEls) :
                 ~hasAttrib(sheetEls[i], xmlnsWbRel, "id")
                 \/ ~hasAttrib(sheetEls[i], "", "name")
      THEN Raise("KeyError", "")
      ELSE parseRelsAndSheets(zip, workbookRoot, xmlnsWb, sheetRels)

----------------------------------------------------------------------------
(* SpreadsheetWriter.loadUnprotect *)

\* InMemoryZipFile.append(filename, data); a str is stored UTF-8 encoded
append(imz, filename, data) == Append(imz, Member(filename, data))

\* lines 174-179 and 181-186: decode, strip, append
unprotectInto(imz, zippedFile, type) ==
  LET xml == decode(zippedFile.data)
  IN  IF ~xml.ok THEN [exc |-> "UnicodeDecodeError", imz |-> imz]
      ELSE [exc |-> "none",
            imz |-> append(imz, zippedFile.filename,
                           encode(getUnprotectedXml(type, xml.s)))]

\* the loop body with the last branch decoding and re-encoding what it copies
loadMemberRecoding(imz, zippedFile, workbook, sheetsToUnprotect, dumpVba) ==
  IF workbook /\ zippedFile.filename = WorkbookXml
  THEN unprotectInto(imz, zippedFile, "workbook")
  ELSE IF zippedFile.filename \in sheetsToUnprotect
  THEN unprotectInto(imz, zippedFile, "sheet")
  ELSE IF dumpVba /\ zippedFile.filename = VbaProject
  THEN [exc |-> "none", imz |-> imz]
  ELSE IF decode(zippedFile.data).ok
       THEN [exc |-> "none",
             imz |-> append(imz, zippedFile.filename,
                            encode(getUnprotectedXml("sheet", decode(zippedFile.data).s)))]
       ELSE [exc |-> "UnicodeDecodeError", imz |-> imz]

\* the loop body with the macro rule tested before the sheet rule
loadMemberMacroRuleFirst(imz, zippedFile, workbook, sheetsToUnprotect, dumpVba) ==
  IF workbook /\ zippedFile.filename = WorkbookXml
  THEN unprotectInto(imz, zippedFile, "workbook")
  ELSE IF dumpVba /\ zippedFile.filename = VbaProject
  THEN [exc |-> "none", imz |-> imz]
  ELSE IF zippedFile.filename \in sheetsToUnprotect
  THEN unprotectInto(imz, zippedFile, "sheet")
  ELSE [exc |-> "none", imz |-> append(imz, zippedFile.filename, zippedFile.data)]

\* lines 173-191: the body of the loop, for one member of reader.zipInfolist
loadMember(imz, zippedFile, workbook, sheetsToUnprotect, dumpVba) ==
  IF workbook /\ zippedFile.filename = WorkbookXml
  THEN unprotectInto(imz, zippedFile, "workbook")
  ELSE IF zippedFile.filename \in sheetsToUnprotect
  THEN unprotectInto(imz, zippedFile, "sheet")
  ELSE IF dumpVba /\ zippedFile.filename = VbaProject
  THEN [exc |-> "none", imz |-> imz]
  ELSE [exc |-> "none", imz |-> append(imz, zippedFile.filename, zippedFile.data)]

\* lines 172-191: the loop from member i on; an exception ends it where it is raised
RECURSIVE loadFrom(_, _, _, _, _, _)
loadFrom(imz, zipInfolist, i, workbook, sheetsToUnprotect, dumpVba) ==
  IF i > Len(zipInfolist) THEN [exc |-> "none", imz |-> imz]
  ELSE LET r == loadMember(imz, zipInfolist[i], workbook, sheetsToUnprotect, dumpVba)
       IN  IF r.exc # "none" THEN r
           ELSE loadFrom(r.imz, zipInfolist, i + 1, workbook, sheetsToUnprotect, dumpVba)

\* lines 158-170: sheets is None, a str (one path), a list of paths or a list of
\* tuples with a path.  The argument is [kind, paths, tuples]: a str is kind "str"
\* with paths = <<path>>, a list of paths is kind "paths", a list of SheetsTuple is
\* kind "tuples".  The list sheetsToUnprotect is only ever tested for membership:
\* it is kept as a set.
sheetsToUnprotectOf(sheets) ==
  IF sheets.kind = "None" THEN {}
  ELSE IF sheets.kind = "str" THEN {sheets.paths[1]}
  ELSE IF sheets.kind = "tuples"
  THEN {sheets.tuples[i].path : i \in 1..Len(sheets.tuples)}
  ELSE {sheets.paths[i] : i \in 1..Len(sheets.paths)}

loadUnprotect(imz, zip, workbook, sheets, dumpVba) ==
  loadFrom(imz, zip, 1, workbook, sheetsToUnprotectOf(sheets), dumpVba)

----------------------------------------------------------------------------
(* The documents and archives the specifications start from. *)

ContentTypes == <<"[Content_Types].xml">>
Sheet1Xml == <<"xl", "worksheets", "sheet1.xml">>
Sheet2Xml == <<"xl", "worksheets", "sheet2.xml">>

\* <workbookProtection lockStructure="1"/> and its other spellings
wbProtElem(form) ==
  LET a == Attr("", "lockStructure", <<"1">>)
  IN  CASE form = "attr"     -> <<Open("", "workbookProtection"), a, Slash, GT>>
        [] form = "empty"    -> <<Open("", "workbookProtection"), Slash, GT>>
        [] form = "paired"   -> <<Open("", "workbookProtection"), a, GT,
                                  Close("", "workbookProtection"), GT>>
        [] form = "prefixed" -> <<Open("x", "workbookProtection"), a, Slash, GT>>
        [] form = "foreign"  -> <<Open("o", "workbookProtection"), a, Slash, GT>>

\* <sheet name=".." r:id=".."/>; rid = "" leaves the relationship id out
sheetElem(e) ==
  <<Open("", "sheet"), Attr("", "name", <<e.name>>)>>
  \o (IF e.rid = "" THEN <<>> ELSE <<Attr("r", "id", <<e.rid>>)>>)
  \o <<Slash, GT>>

\* xl/workbook.xml: the protection elements, then the sheets element (when present)
workbookText(prots, hasSheets, sheetEls) ==
  <<Open("", "workbook"), GT>>
  \o Concat([i \in 1..Len(prots) |-> wbProtElem(prots[i])])
  \o (IF hasSheets
      THEN <<Open("", "sheets"), GT>>
           \o Concat([i \in 1..Len(sheetEls) |-> sheetElem(sheetEls[i])])
           \o <<Close("", "sheets"), GT>>
      ELSE <<>>)
  \o <<Close("", "workbook"), GT>>

relationship(id, target) ==
  <<Open("", "Relationship"), Attr("", "Id", <<id>>), Attr("", "Target", target), Slash, GT>>

\* xl/_rels/workbook.xml.rels
relsText(form) ==
  <<Open("", "Relationships"), GT>>
  \o relationship("rId1", <<"worksheets", "sheet1.xml">>)
  \o relationship("rId2", <<"", "xl", "worksheets", "sheet2.xml">>)
  \o relationship("rId3", <<"styles.xml">>)
  \o (IF form = "noTarget"
      THEN <<Open("", "Relationship"), Attr("", "Id", <<"rId4">>), Slash, GT>>
      ELSE <<>>)
  \o <<Close("", "Relationships"), GT>>

\* <sheetProtection sheet="1"/> and the form with a closing tag
sheetProtElem(form) ==
  LET a == Attr("", "sheet", <<"1">>)
  IN  IF form = "paired"
      THEN <<Open("", "sheetProtection"), a, GT, Close("", "sheetProtection"), GT>>
      ELSE <<Open("", "sheetProtection"), a, Slash, GT>>

\* a worksheet part: form is "plain" (no protection), "selfclosing" or "paired"
sheetText(form) ==
  <<Open("", "worksheet"), GT, Open("", "sheetData"), GT, EAcute,
    Close("", "sheetData"), GT>>
  \o (IF form = "plain" THEN <<>> ELSE sheetProtElem(form))
  \o <<Close("", "worksheet"), GT>>

\* bytes that are no UTF-8 text
Binary == <<Byte("A9"), Byte("C3")>>

sheetData(form) == IF form = "binary" THEN Binary ELSE encode(sheetText(form))

\* the members of an archive, those with present = FALSE left out
RECURSIVE archive(_)
archive(ms) ==
  IF ms = <<>> THEN <<>>
  ELSE IF Head(ms).present
       THEN <<Member(Head(ms).filename, Head(ms).data)>> \o archive(Tail(ms))
       ELSE archive(Tail(ms))

Entry(present, filename, data) ==
  [present |-> present, filename |-> filename, data |-> data]

\* the source archives of Spec; xl/vbaProject.bin is absent, binary (first or in the
\* middle of the archive) or a member whose bytes happen to be ASCII text
writePackage(wb, vba, s1, s2) ==
   archive(<<Entry(TRUE, ContentTypes, encode(<<Open("", "Types"), GT, EAcute,
                                               Close("", "Types"), GT>>)),
             Entry(vba = "first", VbaProject, Binary),
             Entry(TRUE, WorkbookXml,
                   encode(workbookText(IF wb = "none" THEN <<>> ELSE <<wb>>, TRUE,
                                       <<[name |-> "A", rid |-> "rId1"],
                                         [name |-> "B", rid |-> "rId2"]>>))),
             Entry(TRUE, WorkbookRels, encode(relsText("full"))),
             Entry(TRUE, Sheet1Xml, sheetData(s1)),
             Entry(vba \in {"middle", "text"}, VbaProject,
                   IF vba = "text" THEN <<Attr("", "Attribute", <<"VB_Name">>)>>
                   ELSE Binary),
             Entry(TRUE, Sheet2Xml, sheetData(s2))>>)

WbProtForms == {"attr", "empty", "foreign"}
\* rId9 is in no workbook.xml.rels of the model; "" is a <sheet> without r:id
SheetForms ==
  {[name |-> "A", rid |-> "rId1"], [name |-> "B", rid |-> "rId2"],
   [name |-> "B", rid |-> "rId1"], [name |-> "C", rid |-> ""],
   [name |-> "D", rid |-> "rId9"]}

\* the archives of SpecRead
readPackage(prots, hasSheets, sheetEls, rels, s2) ==
   archive(<<Entry(TRUE, WorkbookXml, encode(workbookText(prots, hasSheets, sheetEls))),
             Entry(rels # "absent", WorkbookRels, encode(relsText(rels))),
             Entry(TRUE, Sheet1Xml, sheetData("selfclosing")),
             Entry(s2 # "absent", Sheet2Xml, sheetData(s2))>>)

\* the texts of SpecXml: every token sequence up to MaxLen over this alphabet
\* (a text reaches _getUnprotectedXml as a str: it holds no byte tokens)
XmlAlphabet ==
  {Open("", "sheetProtection"), Open("", "workbookProtection"),
   Attr("", "sheet", <<"1">>), Slash, GT, Close("", "sheetProtection")}

XmlTexts == SeqsUpTo(XmlAlphabet, MaxLen)

----------------------------------------------------------------------------
(* State. *)

VARIABLES
  pc,        \* where the caller is: "opened", "indexed", "constructed", "loaded",
             \* "raised", "closed", "reread"; "xml" and "xmlDone" in SpecXml
  infile,    \* SpreadsheetReader.infile, the source archive
  reader,    \* the reader's attributes and what its last parseWbSheets ended with
  request,   \* how the writer is used and the arguments of loadUnprotect
  imz,       \* SpreadsheetWriter.imz
  raised,    \* the exception loadUnprotect ended with, "none" when it returned
  outFile,   \* the file at outFilePath: [written, zip]
  reread,    \* what parseWbSheets yields on a reader opened on outFilePath
  xmlType,   \* SpecXml: the arguments and the result of _getUnprotectedXml
  xml,
  xmlOut

vars == <<pc, infile, reader, request, imz, raised, outFile, reread, xmlType, xml, xmlOut>>

\* a reader on which parseWbSheets has assigned nothing
NotIndexed ==
  [indexed |-> FALSE, exc |-> "none", msg |-> "", protectedSheets |-> <<>>,
   unprotectedSheets |-> <<>>, wbProt |-> FALSE]

NoRequest ==
  [mode |-> "none", workbook |-> FALSE, dumpVba |-> FALSE,
   sheets |-> [kind |-> "None", paths |-> <<>>, tuples |-> <<>>]]

\* the attributes of a reader after a call of parseWbSheets that ended with r:
\* an exception leaves them as they were
afterParse(old, r) ==
  IF r.exc = "none"
  THEN [indexed |-> TRUE, exc |-> "none", msg |-> "",
        protectedSheets |-> r.protectedSheets,
        unprotectedSheets |-> r.unprotectedSheets, wbProt |-> r.wbProt]
  ELSE [old EXCEPT !.exc = r.exc, !.msg = r.msg]

InitCommon ==
  /\ reader = NotIndexed
  /\ request = NoRequest
  /\ imz = <<>>
  /\ raised = "none"
  /\ outFile = [written |-> FALSE, zip |-> <<>>]
  /\ reread = NotIndexed

\* SpreadsheetReader(infile) on one of the source archives
Init ==
  /\ pc = "opened"
  /\ \E wb \in {"none", "attr", "paired", "prefixed"},
        vba \in {"absent", "first", "middle", "text"},
        s1 \in {"plain", "selfclosing", "paired"},
        s2 \in {"plain", "selfclosing"} :
       infile = writePackage(wb, vba, s1, s2)
  /\ InitCommon
  /\ xmlType = "sheet" /\ xml = <<>> /\ xmlOut = <<>>

InitRead ==
  /\ pc = "opened"
  /\ \E prots \in SeqsUpTo(WbProtForms, MaxWbProtElems),
        hasSheets \in BOOLEAN,
        sheetEls \in SeqsUpTo(SheetForms, MaxSheetElems),
        rels \in {"full", "noTarget", "absent"},
        s2 \in {"plain", "binary", "absent"} :
       /\ \A i, j \in 1..Len(sheetEls) : sheetEls[i] = sheetEls[j] => i = j
       /\ hasSheets \/ sheetEls = <<>>
       /\ infile = readPackage(prots, hasSheets, sheetEls, rels, s2)
  /\ InitCommon
  /\ xmlType = "sheet" /\ xml = <<>> /\ xmlOut = <<>>

InitXml ==
  /\ pc = "xml"
  /\ infile = <<>>
  /\ InitCommon
  /\ xmlType \in {"sheet", "workbook"}
  /\ xml \in XmlTexts
  /\ xmlOut = <<>>

\* reader.parseWbSheets()
ParseWbSheets ==
  /\ pc = "opened"
  /\ reader' = afterParse(reader, parseWbSheets(infile))
  /\ pc' = "indexed"
  /\ UNCHANGED <<infile, request, imz, raised, outFile, reread, xmlType, xml, xmlOut>>

\* the lists a caller may pass as sheets: nothing, one path, a list of paths,
\* or a selection of reader.protectedSheets (as unprotectWrite does)

pathLists ==
  {<<>>, <<Sheet1Xml>>, <<Sheet2Xml>>, <<VbaProject>>, <<Sheet1Xml, Sheet2Xml>>,
   <<Sheet1Xml, VbaProject>>, <<Sheet2Xml, VbaProject>>,
   <<Sheet1Xml, Sheet2Xml, VbaProject>>}

RequestPaths == {Sheet1Xml, Sheet2Xml, VbaProject}

\* [list[i] for i in sheetIndexes], the indexes increasing
selections(list) ==
  {SelectSeq([i \in 1..Len(list) |-> [i |-> i, t |-> list[i]]],
             LAMBDA e : e.i \in I) : I \in SUBSET (1..Len(list))}

sheetArguments(rd) ==
  {[kind |-> "None", paths |-> <<>>, tuples |-> <<>>]}
  \cup {[kind |-> "str", paths |-> <<q>>, tuples |-> <<>>] : q \in RequestPaths}
  \cup {[kind |-> "paths", paths |-> l, tuples |-> <<>>] : l \in pathLists}
  \cup {[kind |-> "tuples", paths |-> <<>>,
         tuples |-> [j \in 1..Len(sel) |-> sel[j].t]] :
          sel \in selections(rd.protectedSheets)}

\* SpreadsheetWriter(path), entered as a context manager ("with", as in
\* unprotectWrite) or kept as a plain object ("call"); the arguments of the
\* loadUnprotect that follows are chosen here
Construct ==
  /\ pc = "indexed"
  /\ \E mode \in {"with", "call"}, workbook \in BOOLEAN, dumpVba \in BOOLEAN,
        sheets \in sheetArguments(reader) :
       request' = [mode |-> mode, workbook |-> workbook, sheets |-> sheets,
                   dumpVba |-> dumpVba]
  /\ imz' = <<>>
  /\ pc' = "constructed"
  /\ UNCHANGED <<infile, reader, raised, outFile, reread, xmlType, xml, xmlOut>>

\* w.loadUnprotect(reader, workbook, sheets, dumpVba)
LoadUnprotect ==
  /\ pc = "constructed"
  /\ LET r == loadUnprotect(imz, infile, request.workbook, request.sheets,
                            request.dumpVba)
     IN  /\ imz' = r.imz
         /\ raised' = r.exc
         /\ pc' = IF r.exc = "none" THEN "loaded" ELSE "raised"
  /\ UNCHANGED <<infile, reader, request, outFile, reread, xmlType, xml, xmlOut>>

\* InMemoryZipFile.write_to_file(outFilePath)
writeClose(archive_) == [written |-> TRUE, zip |-> archive_]

\* SpreadsheetWriter.__exit__(exc_type, ...): writeClose(), whatever exc_type is
exit(archive_, exc_type, old) == writeClose(archive_)

\* w.writeClose(), called by a caller whose loadUnprotect returned
WriteClose ==
  /\ pc = "loaded"
  /\ request.mode = "call"
  /\ outFile' = writeClose(imz)
  /\ pc' = "closed"
  /\ UNCHANGED <<infile, reader, request, imz, raised, reread, xmlType, xml, xmlOut>>

\* the with block is left, by loadUnprotect returning or by its exception
Exit ==
  /\ pc \in {"loaded", "raised"}
  /\ request.mode = "with"
  /\ outFile' = exit(imz, raised, outFile)
  /\ pc' = "closed"
  /\ UNCHANGED <<infile, reader, request, imz, raised, reread, xmlType, xml, xmlOut>>

\* SpreadsheetReader(outFilePath).parseWbSheets() on the written file
Reread ==
  /\ pc = "closed"
  /\ reread' = afterParse(NotIndexed, parseWbSheets(outFile.zip))
  /\ pc' = "reread"
  /\ UNCHANGED <<infile, reader, request, imz, raised, outFile, xmlType, xml, xmlOut>>

\* self._getUnprotectedXml(type, xml)
GetUnprotectedXml ==
  /\ pc = "xml"
  /\ xmlOut' = getUnprotectedXml(xmlType, xml)
  /\ pc' = "xmlDone"
  /\ UNCHANGED <<infile, reader, request, imz, raised, outFile, reread, xmlType, xml>>

Next == ParseWbSheets \/ Construct \/ LoadUnprotect \/ WriteClose \/ Exit \/ Reread

NextRead == ParseWbSheets

NextXml == GetUnprotectedXml

Spec == Init /\ [][Next]_vars

SpecRead == InitRead /\ [][NextRead]_vars

SpecXml == InitXml /\ [][NextXml]_vars

----------------------------------------------------------------------------
(* Facts about the documents and the request that the properties speak of. *)

filenames(zip) == [i \in 1..Len(zip) |-> zip[i].filename]

loadReturned == pc \in {"loaded", "closed", "reread"} /\ raised = "none"

sheetsToUnprotect == sheetsToUnprotectOf(request.sheets)

\* the rule that applies to source member i: the workbook rule, the sheet rule,
\* the macro rule, or none of them
transformed(i) ==
  \/ request.workbook /\ infile[i].filename = WorkbookXml
  \/ infile[i].filename \in sheetsToUnprotect

dropped(i) ==
  ~transformed(i) /\ request.dumpVba /\ infile[i].filename = VbaProject

\* where source member i lands in the output: after the members before it that
\* were not dropped
outIndex(i) == Cardinality({j \in 1..i : ~dropped(j)})

\* C1: the destination file is either untouched or holds the complete output of a
\* loadUnprotect that returned; it never holds the members appended before a failure.
C1_DestinationNeverPartial ==
  outFile.written =>
    /\ raised = "none"
    /\ Len(outFile.zip) = Cardinality({i \in 1..Len(infile) : ~dropped(i)})

\* C2: every member that loadUnprotect neither transforms nor drops is in the
\* output under the same path, with exactly the bytes the reader returns for it.
C2_UntouchedMembersByteIdentical ==
  loadReturned =>
    \A i \in 1..Len(infile) :
      (~transformed(i) /\ ~dropped(i)) =>
        /\ outIndex(i) <= Len(imz)
        /\ imz[outIndex(i)] = infile[i]
        /\ outFile.written => outFile.zip[outIndex(i)] = infile[i]

\* C2 witness: a load that returned, having copied a binary member (bytes that are
\* no UTF-8 text) while transforming another member.
C2_Witness ==
  /\ loadReturned
  /\ \E i, j \in 1..Len(infile) :
       /\ ~transformed(i) /\ ~dropped(i) /\ ~decode(infile[i].data).ok
       /\ transformed(j) /\ imz[outIndex(j)].data # infile[j].data

\* C3 as claimed: the output's member paths are the source's, with
\* xl/vbaProject.bin deleted exactly when dumpVba is true, for every request.
C3_VbaDeletedWheneverDumpVba ==
  loadReturned =>
    filenames(imz) =
      SelectSeq(filenames(infile), LAMBDA f : ~(request.dumpVba /\ f = VbaProject))

\* C3: the output's member paths are the source's in the source's order, with
\* xl/vbaProject.bin deleted exactly when dumpVba is true and the path is not
\* selected in sheets (a selected path is transformed and kept).
C3_MemberSequence ==
  loadReturned =>
    filenames(imz) =
      SelectSeq(filenames(infile),
                LAMBDA f : ~(request.dumpVba /\ f = VbaProject
                             /\ VbaProject \notin sheetsToUnprotect))

\* C3 witness: a load with dumpVba that returned and left xl/vbaProject.bin out.
C3_Witness ==
  /\ loadReturned
  /\ request.dumpVba
  /\ hasVba(infile)
  /\ VbaProject \notin namelist(imz)
  /\ Len(imz) = Len(infile) - 1

----------------------------------------------------------------------------
(* Matches of the protection pattern, stated on positions of the text.     *)

\* a match of the pattern can start at j: the literal, and a '>' somewhere after it
startsMatch(lit, text, j) == text[j] = lit /\ firstGT(text, j) # 0

\* position i lies in a match: from a literal that has a '>' after it, up to the
\* first '>' after that literal
inMatch(lit, text, i) ==
  \E j \in 1..i : startsMatch(lit, text, j) /\ i <= firstGT(text, j)

\* the text without the positions in S
without(text, S) ==
  LET keep == {i \in 1..Len(text) : i \notin S}
      nth(k) == CHOOSE i \in keep : Cardinality({h \in keep : h <= i}) = k
  IN  [k \in 1..Cardinality(keep) |-> text[nth(k)]]

\* the start of the leftmost match, 0 when there is none
firstMatch(lit, text) ==
  LET J == {j \in 1..Len(text) : startsMatch(lit, text, j)}
  IN  IF J = {} THEN 0 ELSE CHOOSE j \in J : \A h \in J : j <= h

\* a second match starts after the end of the leftmost one
hasSecondMatch(lit, text) ==
  /\ firstMatch(lit, text) # 0
  /\ \E j \in (firstGT(text, firstMatch(lit, text)) + 1)..Len(text) :
        startsMatch(lit, text, j)

\* C4 as claimed: of two or more matches only the first is removed, every later
\* match stays in the output, unchanged and in place.
C4_OnlyFirstMatchRemoved ==
  (pc = "xmlDone" /\ hasSecondMatch(unprotRe(xmlType), xml)) =>
    LET j == firstMatch(unprotRe(xmlType), xml)
    IN  xmlOut = without(xml, j..firstGT(xml, j))

\* C4: the substitution removes every match of the protection pattern of a part,
\* not only the first: the output is the text without the characters of any match.
C4_EveryMatchRemoved ==
  pc = "xmlDone" =>
    xmlOut = without(xml, {i \in 1..Len(xml) : inMatch(unprotRe(xmlType), xml, i)})

\* C4 witness: a text with two matches has been substituted, and something is left.
C4_Witness ==
  /\ pc = "xmlDone"
  /\ hasSecondMatch(unprotRe(xmlType), xml)
  /\ xmlOut # <<>>
  /\ Len(xmlOut) < Len(xml)

\* the last position of the sheetProtection element whose start tag is at j
\* (self-closing, or with its closing tag right after the start tag), 0 when the
\* tokens at j are no complete element
elementEnd(text, j) ==
  LET k == j + 1 + attrRun(text, j + 1)
  IN  IF k + 1 <= Len(text) /\ text[k] = Slash /\ text[k + 1] = GT THEN k + 1
      ELSE IF k + 2 <= Len(text) /\ text[k] = GT
              /\ text[k + 1] = Close("", "sheetProtection") /\ text[k + 2] = GT
      THEN k + 2
      ELSE 0

\* C5: a sheet part that contains a sheetProtection element (self-closing or with
\* a closing tag) comes out without "<sheetProtection" and equal to the source
\* with exactly that whole element deleted, no fragment of it left behind.
C5_WholeElementRemoved ==
  (pc = "xmlDone" /\ xmlType = "sheet") =>
    \A j \in 1..Len(xml) :
      ( /\ xml[j] = Open("", "sheetProtection")
        /\ \A h \in 1..Len(xml) : xml[h] = Open("", "sheetProtection") => h = j
        /\ elementEnd(xml, j) # 0 ) =>
      /\ ~containsSheetProtection(xmlOut)
      /\ xmlOut = without(xml, j..elementEnd(xml, j))

----------------------------------------------------------------------------------------------------------------------------------------
(* Facts about the documents of the source archive. *)

\* the member is there, is UTF-8 and is well-formed
readable(zip, name) ==
  /\ getFile(zip, name).ok
  /\ decode(getFile(zip, name).data).ok
  /\ fromstring(decode(getFile(zip, name).data).s).ok

rootOf(zip, name) == fromstring(decode(getFile(zip, name).data).s).root

isMain(e, local) == nsOfElement(e.p) = "main" /\ e.n = local

\* the <sheets> children of the workbook root wb, in its namespace
sheetsElements(wb) == SelectSeq(wb.children, LAMBDA e : isMain(e, "sheets"))

\* the <sheet> elements declared in xl/workbook.xml, in document order
declaredSheets(wb) ==
  IF sheetsElements(wb) = <<>> THEN <<>>
  ELSE SelectSeq(sheetsElements(wb)[1].children, LAMBDA e : isMain(e, "sheet"))

\* the workbookProtection children of the root, in the root's namespace
wbProtElements(wb) == SelectSeq(wb.children, LAMBDA e : isMain(e, "workbookProtection"))

listed(tuples) == {tuples[i] : i \in 1..Len(tuples)}

\* C6: after a successful index the two lists have no sheet in common, every
\* declared sheet is in one of them, and their lengths add up to the number of
\* <sheet> elements of xl/workbook.xml, also when two of them share a relationship id.
C6_Partition ==
  (pc = "indexed" /\ reader.indexed) =>
    LET declared == declaredSheets(rootOf(infile, WorkbookXml))
    IN  /\ listed(reader.protectedSheets) \cap listed(reader.unprotectedSheets) = {}
        /\ \A i \in 1..Len(declared) :
              \E t \in listed(reader.protectedSheets) \cup listed(reader.unprotectedSheets) :
                 t.name = attrib(declared[i], "", "name")
        /\ Len(reader.protectedSheets) + Len(reader.unprotectedSheets) = Len(declared)

\* C7: without a <sheets> element, with an empty one, or with a <sheet> that has no
\* relationship id, index fails with BadSpreadsheetError "Failed to parse
\* workbook.xml" and with no other exception type.
C7_MalformedSheetsIsBadSpreadsheetError ==
  (pc = "indexed" /\ readable(infile, WorkbookXml)) =>
    LET wb == rootOf(infile, WorkbookXml)
        declared == declaredSheets(wb)
    IN  ( \/ sheetsElements(wb) = <<>>
          \/ declared = <<>>
          \/ \E i \in 1..Len(declared) : ~hasAttrib(declared[i], "rel", "id") ) =>
        /\ reader.exc = "BadSpreadsheetError"
        /\ reader.msg = "Failed to parse workbook.xml"

\* C8 as claimed: wbProt is true iff the root has some workbookProtection child in
\* its namespace that carries at least one attribute.
C8_WbProtIffSomeElementWithAttribute ==
  (pc = "indexed" /\ reader.indexed) =>
    LET prots == wbProtElements(rootOf(infile, WorkbookXml))
    IN  reader.wbProt <=> \E i \in 1..Len(prots) : Len(prots[i].attrs) > 0

\* C8: wbProt is true iff the first workbookProtection child of the root, in the
\* root's namespace, carries at least one attribute; no such element, or a first
\* one with zero attributes, yields false.
C8_WbProtIffFirstElementHasAttribute ==
  (pc = "indexed" /\ reader.indexed) =>
    LET prots == wbProtElements(rootOf(infile, WorkbookXml))
    IN  reader.wbProt <=> (prots # <<>> /\ Len(prots[1].attrs) > 0)

\* C8 witness: an indexed workbook that is reported unprotected, its first
\* workbookProtection element having no attribute while a later one has one.
C8_Witness ==
  /\ pc = "indexed" /\ reader.indexed
  /\ ~reader.wbProt
  /\ LET prots == wbProtElements(rootOf(infile, WorkbookXml))
     IN  /\ Len(prots) >= 2
         /\ prots[1].attrs = <<>>
         /\ prots[2].attrs # <<>>

----------------------------------------------------------------------------
(* The two maps of parseWbSheets, read off the documents. *)

\* every step before the sheets are resolved succeeds: workbook.xml gives a
\* relationship id and a name for each <sheet>, workbook.xml.rels an Id and a Target
\* for each entry
mapsBuilt(zip) ==
  /\ readable(zip, WorkbookXml)
  /\ readable(zip, WorkbookRels)
  /\ LET wb == rootOf(zip, WorkbookXml)
         declared == declaredSheets(wb)
         rels == rootOf(zip, WorkbookRels).children
     IN  /\ declared # <<>>
         /\ Len(declared) = Len(sheetsElements(wb)[1].children)
         /\ \A i \in 1..Len(declared) :
               /\ hasAttrib(declared[i], "rel", "id")
               /\ hasAttrib(declared[i], "", "name")
               /\ \A a \in 1..Len(declared[i].attrs) : declared[i].attrs[a].p \in {"", "r"}
         /\ \A i \in 1..Len(rels) :
               hasAttrib(rels[i], "", "Id") /\ hasAttrib(rels[i], "", "Target")

\* the relationship ids of the <sheet> elements, in document order
sheetIds(wb) ==
  [i \in 1..Len(declaredSheets(wb)) |-> attrib(declaredSheets(wb)[i], "rel", "id")]

\* the ids of the entries rels of workbook.xml.rels, and the target of one of them
relIds(rels) == {attrib(rels[i], "", "Id") : i \in 1..Len(rels)}

targetOf(rels, id) ==
  LET I == {i \in 1..Len(rels) : attrib(rels[i], "", "Id") = id}
  IN  attrib(rels[CHOOSE i \in I : \A j \in I : j <= i], "", "Target")

\* the sheet of id has no relationship, or its relationship resolves to no member
sheetMissing(zip, rels, id) ==
  id \notin relIds(rels) \/ getPath(targetOf(rels, id)) \notin namelist(zip)

\* the sheet of id resolves to a member that is no UTF-8 text
sheetUndecodable(zip, rels, id) ==
  /\ ~sheetMissing(zip, rels, id)
  /\ ~decode(getFile(zip, getPath(targetOf(rels, id))).data).ok

SheetNotFound ==
  /\ reader.exc = "BadSpreadsheetError"
  /\ reader.msg = "Sheet expected but not found"
  /\ ~reader.indexed

\* C9 as claimed: index fails with "Sheet expected but not found" whenever a
\* resolved relationship id has no member or a relationship id is in one of the two
\* maps and not in the other; nothing is published then.
C9_FailsOnAnyInconsistency ==
  (pc = "indexed" /\ mapsBuilt(infile)) =>
    LET ids  == sheetIds(rootOf(infile, WorkbookXml))
        rels == rootOf(infile, WorkbookRels).children
    IN  ( \/ \E i \in 1..Len(ids) : sheetMissing(infile, rels, ids[i])
          \/ \E id \in relIds(rels) : \A i \in 1..Len(ids) : ids[i] # id ) =>
        SheetNotFound

\* C9: index fails with "Sheet expected but not found", publishing nothing, whenever
\* the first sheet relationship id (in workbook.xml order) whose part cannot be read
\* is absent from workbook.xml.rels or resolves to no archive member; ids that only
\* workbook.xml.rels has are ignored: when every sheet id resolves to a readable
\* member the call succeeds.
C9_FailsOnMissingSheet ==
  (pc = "indexed" /\ mapsBuilt(infile)) =>
    LET ids  == sheetIds(rootOf(infile, WorkbookXml))
        rels == rootOf(infile, WorkbookRels).children
    IN  /\ (\E i \in 1..Len(ids) :
               /\ sheetMissing(infile, rels, ids[i])
               /\ \A j \in 1..(i - 1) : ~sheetUndecodable(infile, rels, ids[j]))
             => SheetNotFound
        /\ (\A i \in 1..Len(ids) :
               /\ ~sheetMissing(infile, rels, ids[i])
               /\ ~sheetUndecodable(infile, rels, ids[i]))
             => reader.indexed

\* C9 witness: an index that failed, one sheet having a relationship that resolves
\* to no member and one having no relationship, in an archive whose
\* workbook.xml.rels has an id no sheet uses.
C9_Witness ==
  /\ pc = "indexed"
  /\ mapsBuilt(infile)
  /\ SheetNotFound
  /\ LET ids  == sheetIds(rootOf(infile, WorkbookXml))
         rels == rootOf(infile, WorkbookRels).children
     IN  /\ \E i \in 1..Len(ids) :
               ids[i] \in relIds(rels) /\ sheetMissing(infile, rels, ids[i])
         /\ \E i \in 1..Len(ids) : ids[i] \notin relIds(rels)
         /\ \E id \in relIds(rels) : \A i \in 1..Len(ids) : ids[i] # id

\* C10: after loadUnprotect(workbook=True, sheets=reader.protectedSheets) and
\* writeClose on a package that indexed successfully, indexing the written package
\* yields wbProt false, no protected sheet, and every sheet of the source among the
\* unprotected ones.
C10_DetectionAndRemovalAgree ==
  ( /\ pc = "reread"
    /\ reader.indexed
    /\ raised = "none"
    /\ request.workbook
    /\ request.sheets.kind = "tuples"
    /\ request.sheets.tuples = reader.protectedSheets ) =>
    /\ reread.indexed
    /\ ~reread.wbProt
    /\ reread.protectedSheets = <<>>
    /\ listed(reread.unprotectedSheets)
         = listed(reader.protectedSheets) \cup listed(reader.unprotectedSheets)

====
